---- MODULE Spec2Model ----
(***************************************************************************)
(* A model of waynr/mastermind (src/main.rs): the Code parser, the scorer, *)
(* the Display implementations and the main loop that reads guesses until  *)
(* one of them wins.                                                       *)
(*                                                                         *)
(* Text is modelled as a sequence of one-character strings, so that        *)
(* parsing and formatting work character by character as the code does.    *)
(***************************************************************************)
EXTENDS Naturals, Sequences, FiniteSets

VARIABLES
    pc,          \* main's position: "start", "loop", "done" (Ok(())), "error" (Err)
    arg,         \* cli.hidden_code, the text of --hidden-code
    hidden_code, \* board.hidden_code
    rounds,      \* board.rounds
    stdin_read,  \* the lines read_line has returned so far, in order
    stdout,      \* what println! has written so far, one entry per call
    err          \* the error main returned with

vars == <<pc, arg, hidden_code, rounds, stdin_read, stdout, err>>

----------------------------------------------------------------------------
(* Bounds of the model *)

\* The loop of main is unbounded; the model stops reading after this many rounds.
MaxRounds == 3

\* The longest text the parser is given in SpecParse.
MaxStrLen == 5

----------------------------------------------------------------------------
(* Program constants and types *)

\* positional: [Color; 4]
CodeLen == 4

Color == {"Red", "Green", "Blue", "Purple"}

Key == {"ColorCorrect", "ColorAndPositionCorrect", "Empty"}

\* The board does not exist before main has parsed the hidden code.
NoCode == [positional |-> <<>>, set |-> {}]

NotEnough == "not enough characters"
TooMany == "too many characters"
IoError == "read_line failed"
NoError == "none"

Congratulations == <<"congratulations, you win!">>

----------------------------------------------------------------------------
(* Display implementations *)

\* Mutant: Purple written with Blue's character
ColorDisplay_typo(c) ==
    CASE c = "Red" -> "r"
      [] c = "Green" -> "g"
      [] c = "Blue" -> "b"
      [] c = "Purple" -> "b"

\* impl fmt::Display for Color
ColorDisplay(c) ==
    CASE c = "Red" -> "r"
      [] c = "Green" -> "g"
      [] c = "Blue" -> "b"
      [] c = "Purple" -> "p"

\* impl fmt::Display for Key
KeyDisplay(k) ==
    CASE k = "ColorCorrect" -> "w"
      [] k = "ColorAndPositionCorrect" -> "b"
      [] k = "Empty" -> " "

\* impl fmt::Display for Code: "{} {} {} {}"
CodeDisplay(code) ==
    << ColorDisplay(code.positional[1]), " ", ColorDisplay(code.positional[2]), " ",
       ColorDisplay(code.positional[3]), " ", ColorDisplay(code.positional[4]) >>

\* impl fmt::Display for Score: "{} {} {} {}"
ScoreDisplay(s) ==
    << KeyDisplay(s[1]), " ", KeyDisplay(s[2]), " ", KeyDisplay(s[3]), " ", KeyDisplay(s[4]) >>

\* impl fmt::Display for Round: "{} - {}"
RoundDisplay(round) ==
    CodeDisplay(round.input_code) \o <<" ", "-", " ">> \o ScoreDisplay(round.score)

\* impl fmt::Display for Board: write!(f, "{}", round) for each round, nothing between
RECURSIVE BoardDisplay(_)
BoardDisplay(rs) ==
    IF rs = <<>> THEN <<>>
    ELSE RoundDisplay(Head(rs)) \o BoardDisplay(Tail(rs))

\* println!("{}", x): the text and a line break
println(out, text) == Append(out, text \o <<"\n">>)

----------------------------------------------------------------------------
(* Code::try_from *)

\* Mutant: the 'p' arm forgets set.insert(Color::Purple)
RECURSIVE filter_map_no_insert(_)
filter_map_no_insert(s) ==
    IF s = <<>> THEN [pos |-> <<>>, set |-> {}]
    ELSE LET acc == filter_map_no_insert(SubSeq(s, 1, Len(s) - 1))
             c == s[Len(s)]
         IN CASE c \in {"(", ")", ","} -> acc
              [] c = "r" -> [pos |-> Append(acc.pos, "Red"), set |-> acc.set \cup {"Red"}]
              [] c = "g" -> [pos |-> Append(acc.pos, "Green"), set |-> acc.set \cup {"Green"}]
              [] c = "b" -> [pos |-> Append(acc.pos, "Blue"), set |-> acc.set \cup {"Blue"}]
              [] c = "p" -> [pos |-> Append(acc.pos, "Purple"), set |-> acc.set]
              [] OTHER -> acc

\* The filter_map closure folded over s.chars(): the symbols kept, in order, and
\* the HashSet the closure inserts into as it goes.
RECURSIVE filter_map(_)
filter_map(s) ==
    IF s = <<>> THEN [pos |-> <<>>, set |-> {}]
    ELSE LET acc == filter_map(SubSeq(s, 1, Len(s) - 1))
             c == s[Len(s)]
         IN CASE c \in {"(", ")", ","} -> acc
              [] c = "r" -> [pos |-> Append(acc.pos, "Red"), set |-> acc.set \cup {"Red"}]
              [] c = "g" -> [pos |-> Append(acc.pos, "Green"), set |-> acc.set \cup {"Green"}]
              [] c = "b" -> [pos |-> Append(acc.pos, "Blue"), set |-> acc.set \cup {"Blue"}]
              [] c = "p" -> [pos |-> Append(acc.pos, "Purple"), set |-> acc.set \cup {"Purple"}]
              [] OTHER -> acc

\* Mutant: the x > 4 arm is missing, the first four symbols are taken
try_from_no_upper(s) ==
    LET r == filter_map(s) IN
    IF Len(r.pos) < CodeLen THEN [ok |-> FALSE, err |-> NotEnough, code |-> NoCode]
    ELSE [ok |-> TRUE, err |-> NoError,
          code |-> [positional |-> <<r.pos[1], r.pos[2], r.pos[3], r.pos[4]>>,
                    set |-> r.set]]

\* impl TryFrom<String> for Code
try_from(s) ==
    LET r == filter_map(s) IN
    IF Len(r.pos) < CodeLen THEN [ok |-> FALSE, err |-> NotEnough, code |-> NoCode]
    ELSE IF Len(r.pos) > CodeLen THEN [ok |-> FALSE, err |-> TooMany, code |-> NoCode]
    ELSE [ok |-> TRUE, err |-> NoError,
          code |-> [positional |-> <<r.pos[1], r.pos[2], r.pos[3], r.pos[4]>>,
                    set |-> r.set]]

----------------------------------------------------------------------------
(* Code::score and Score::wins *)

\* Mutant: the membership test reads the guess's set: other.set.contains(s)
score_other_set(self, other) ==
    [i \in 1..CodeLen |->
        IF self.positional[i] = other.positional[i] THEN "ColorAndPositionCorrect"
        ELSE IF self.positional[i] \in other.set THEN "ColorCorrect"
        ELSE "Empty"]

\* Mutant: the membership test comes before the equality test
score_set_first(self, other) ==
    [i \in 1..CodeLen |->
        IF other.positional[i] \in self.set THEN "ColorCorrect"
        ELSE IF self.positional[i] = other.positional[i] THEN "ColorAndPositionCorrect"
        ELSE "Empty"]

\* Code::score
score(self, other) ==
    [i \in 1..CodeLen |->
        IF self.positional[i] = other.positional[i] THEN "ColorAndPositionCorrect"
        ELSE IF other.positional[i] \in self.set THEN "ColorCorrect"
        ELSE "Empty"]

\* Mutant: the pattern leaves the fourth key open
wins_first_three(s) ==
    /\ s[1] = "ColorAndPositionCorrect"
    /\ s[2] = "ColorAndPositionCorrect"
    /\ s[3] = "ColorAndPositionCorrect"

\* Score::wins (Round::wins forwards to it)
wins(s) ==
    /\ s[1] = "ColorAndPositionCorrect"
    /\ s[2] = "ColorAndPositionCorrect"
    /\ s[3] = "ColorAndPositionCorrect"
    /\ s[4] = "ColorAndPositionCorrect"

----------------------------------------------------------------------------
(* main and Board::get_input *)

\* Mutant: the history is replaced by the new round
push_replace(rs, round) == <<round>>

\* self.rounds.push(round)
push(rs, round) == Append(rs, round)

\* Mutant: the loop has no break
main_loop_no_break(won) == "loop"

\* main's loop: break when get_input returned true, go round again otherwise
main_loop(won) == IF won THEN "done" ELSE "loop"

Init ==
    /\ pc = "start"
    /\ arg = <<>>
    /\ hidden_code = NoCode
    /\ rounds = <<>>
    /\ stdin_read = <<>>
    /\ stdout = <<>>
    /\ err = NoError

\* main, up to the loop: Cli::parse() and the Board whose hidden_code is
\* cli.hidden_code.try_into()?
ParseCli(Args) ==
    /\ pc = "start"
    /\ \E s \in Args :
        LET parsed == try_from(s) IN
        /\ arg' = s
        /\ IF parsed.ok
           THEN /\ hidden_code' = parsed.code
                /\ pc' = "loop"
                /\ err' = err
           ELSE /\ hidden_code' = hidden_code
                /\ pc' = "error"
                /\ err' = parsed.err
    /\ UNCHANGED <<rounds, stdin_read, stdout>>

\* Mutant: a guess that does not parse is asked for again
get_input_retry(Lines, cap) ==
    /\ pc = "loop"
    /\ Len(rounds) < cap
    /\ LET shown == println(stdout, BoardDisplay(rounds)) IN
       \/ /\ pc' = "error"
          /\ err' = IoError
          /\ stdout' = shown
          /\ UNCHANGED <<arg, hidden_code, rounds, stdin_read>>
       \/ \E buffer \in Lines :
            LET parsed == try_from(buffer) IN
            /\ stdin_read' = Append(stdin_read, buffer)
            /\ IF ~parsed.ok
               THEN /\ pc' = "loop"
                    /\ err' = err
                    /\ stdout' = shown
                    /\ rounds' = rounds
               ELSE LET round == [input_code |-> parsed.code,
                                  score |-> score(hidden_code, parsed.code)]
                        pushed == push(rounds, round)
                        won == wins(pushed[Len(pushed)].score)
                    IN /\ rounds' = pushed
                       /\ pc' = main_loop(won)
                       /\ stdout' = IF won
                                    THEN Append(println(shown, BoardDisplay(pushed)),
                                                Congratulations \o <<"\n">>)
                                    ELSE shown
                       /\ err' = err
            /\ UNCHANGED <<arg, hidden_code>>

\* One turn of main's loop: board.get_input()? and what main does with its result.
get_input(Lines, cap) ==
    /\ pc = "loop"
    /\ Len(rounds) < cap
    /\ LET shown == println(stdout, BoardDisplay(rounds)) IN
       \/ \* read_line(&mut buffer)? fails
          /\ pc' = "error"
          /\ err' = IoError
          /\ stdout' = shown
          /\ UNCHANGED <<arg, hidden_code, rounds, stdin_read>>
       \/ \E buffer \in Lines :
            LET parsed == try_from(buffer) IN
            /\ stdin_read' = Append(stdin_read, buffer)
            /\ IF ~parsed.ok
               THEN /\ pc' = "error"
                    /\ err' = parsed.err
                    /\ stdout' = shown
                    /\ rounds' = rounds
               ELSE LET round == [input_code |-> parsed.code,
                                  score |-> score(hidden_code, parsed.code)]
                        pushed == push(rounds, round)
                        won == wins(pushed[Len(pushed)].score)
                    IN /\ rounds' = pushed
                       /\ pc' = main_loop(won)
                       /\ stdout' = IF won
                                    THEN Append(println(shown, BoardDisplay(pushed)),
                                                Congratulations \o <<"\n">>)
                                    ELSE shown
                       /\ err' = err
            /\ UNCHANGED <<arg, hidden_code>>

----------------------------------------------------------------------------
(* Inputs *)

SymbolChars == {"r", "g", "b", "p"}

\* The characters the parser is tried on: the symbols, the separators it names,
\* white space and a character of no meaning.
ParseChars == SymbolChars \cup {"(", ")", ",", " ", "x"}

\* A session's inputs: bare, decorated, spaced and dirty tokens, and bad ones.
HiddenArgs ==
    { <<"r", "g", "b", "p">>,
      <<"(", "r", ",", "g", ",", "b", ",", "p", ")">>,
      <<"r", "r", "g", "g">>,
      <<"p", "x", "p", " ", "p", "p">>,
      <<"r", "g", "b">>,
      <<"r", "g", "b", "p", "r">>,
      <<>> }

Lines ==
    { <<"r", "g", "b", "p", "\n">>,
      <<"p", "p", "p", "p", "\n">>,
      <<"r", "r", "r", "r", "\n">>,
      <<"r", "r", "g", "g", "\n">>,
      <<"g", "r", "p", "b", "\n">>,
      <<"(", "r", ",", "g", ",", "b", ",", "p", ")", "\n">>,
      <<"b", " ", "b", " ", "r", " ", "r", "\n">>,
      <<"r", "g", "\n">>,
      <<"r", "g", "b", "p", "p", "\n">>,
      <<"\n">>,
      <<>> }

\* Every code there is, as a bare token
CodeStrings == [1..CodeLen -> SymbolChars]

ScoreArgs == CodeStrings \cup {<<"r", "g", "b">>, <<"r", "g", "b", "p", "p">>}

ScoreLines == {s \o <<"\n">> : s \in CodeStrings} \cup {<<>>, <<"r", "g", "b", "p", "p", "\n">>}

\* Every text of at most MaxStrLen characters
ParseStrings == UNION {[1..n -> ParseChars] : n \in 0..MaxStrLen}

ParseLines == { <<"r", "g", "b", "p", "\n">>, <<"x", "p", "(", "p", "p", ",", "p", "\n">>,
                <<"r", "x", "\n">>, <<"r", "g", "b", "b", "p", "\n">> }

----------------------------------------------------------------------------
(* Specifications *)

Next == ParseCli(HiddenArgs) \/ get_input(Lines, MaxRounds)

\* A session on chosen inputs, up to MaxRounds rounds.
Spec == Init /\ [][Next]_vars

NextScore == ParseCli(ScoreArgs) \/ get_input(ScoreLines, 1)

\* Every hidden code against every guess: one round.
SpecScore == Init /\ [][NextScore]_vars

NextParse == ParseCli(ParseStrings) \/ get_input(ParseLines, 1)

\* The parser on every text of at most MaxStrLen characters.
SpecParse == Init /\ [][NextParse]_vars

----------------------------------------------------------------------------
(* What the properties are stated with: the specification's own terms, defined *)
(* without the operators above.                                               *)

Last(s) == s[Len(s)]

Range(f) == {f[i] : i \in DOMAIN f}

IsSymbolChar(c) == c \in {"r", "g", "b", "p"}

SymbolOf(c) ==
    CASE c = "r" -> "Red" [] c = "g" -> "Green" [] c = "b" -> "Blue" [] c = "p" -> "Purple"

\* f(s): the characters of s that are symbols, in the order met
FilterSymbols(s) ==
    LET kept == SelectSeq(s, IsSymbolChar)
    IN [i \in 1..Len(kept) |-> SymbolOf(kept[i])]

AllExact(s) == \A i \in 1..CodeLen : s[i] = "ColorAndPositionCorrect"

\* The codes of a state: the hidden code and every recorded guess
CodesOfState ==
    (IF hidden_code = NoCode THEN {} ELSE {hidden_code})
        \cup {rounds[k].input_code : k \in 1..Len(rounds)}

RGBP == <<"Red", "Green", "Blue", "Purple">>
RRRR == <<"Red", "Red", "Red", "Red">>

----------------------------------------------------------------------------
(* Properties *)

\* C1: in every recorded round, the key at position i is ColorAndPositionCorrect
\* when the guess and the hidden code agree there, otherwise ColorCorrect when the
\* guessed symbol occurs anywhere in the hidden code, otherwise Empty; repeated
\* guessed symbols are not count-limited: hidden r g b p, guess r r r r gives b w w w.
C1_ScoreByPosition ==
    \A k \in 1..Len(rounds) :
        LET h == hidden_code.positional
            g == rounds[k].input_code.positional
        IN /\ \A i \in 1..CodeLen :
                rounds[k].score[i] =
                    IF g[i] = h[i] THEN "ColorAndPositionCorrect"
                    ELSE IF g[i] \in Range(h) THEN "ColorCorrect"
                    ELSE "Empty"
           /\ (h = RGBP /\ g = RRRR) =>
                rounds[k].score = <<"ColorAndPositionCorrect", "ColorCorrect",
                                    "ColorCorrect", "ColorCorrect">>

C1_Witness ==
    /\ Len(rounds) = 1
    /\ hidden_code.positional = RGBP
    /\ rounds[1].input_code.positional = RRRR
    /\ rounds[1].score[2] = "ColorCorrect"

\* C2: when the game has ended with a win after N guesses that did not win, the
\* history holds N+1 rounds, the k-th round holds the k-th line read, only the last
\* round wins; and no step changes the hidden code or a round already recorded.
C2_HistoryIntegrity ==
    /\ [](pc = "done" =>
            /\ Len(rounds) = Len(stdin_read)
            /\ \A k \in 1..Len(rounds) :
                /\ rounds[k].input_code.positional = FilterSymbols(stdin_read[k])
                /\ AllExact(rounds[k].score) <=> k = Len(rounds))
    /\ [][hidden_code /= NoCode =>
            /\ hidden_code' = hidden_code
            /\ Len(rounds') >= Len(rounds)
            /\ SubSeq(rounds', 1, Len(rounds)) = rounds]_vars

C2_Witness ==
    /\ pc = "done"
    /\ Len(rounds) = 3
    /\ rounds[1].input_code /= rounds[2].input_code

\* C3: the driver is in progress ("loop") or has won ("done"); a round that wins
\* moves it to done, any other round leaves it in progress; it is done exactly when
\* the last round wins, no earlier round wins, and once done no line is read and
\* no round is appended.
C3_TwoStateDriver ==
    /\ []((pc = "done" <=> (rounds /= <<>> /\ AllExact(Last(rounds).score)))
            /\ \A k \in 1..Len(rounds) : AllExact(rounds[k].score) => k = Len(rounds))
    /\ [][/\ rounds' /= rounds =>
                /\ pc = "loop"
                /\ pc' = IF AllExact(Last(rounds').score) THEN "done" ELSE "loop"
          /\ pc = "done" => pc' = "done" /\ UNCHANGED <<rounds, stdin_read>>]_vars

C3_Witness ==
    /\ pc = "done"
    /\ Len(rounds) = 2
    /\ Len(stdin_read) = 2

\* C4: a round's score wins exactly when its guess equals the hidden code at all
\* four positions, and the game ends with a win exactly then.
C4_WinsIffEqual ==
    \A k \in 1..Len(rounds) :
        LET same == \A i \in 1..CodeLen :
                        rounds[k].input_code.positional[i] = hidden_code.positional[i]
        IN /\ wins(rounds[k].score) <=> same
           /\ k = Len(rounds) => (pc = "done" <=> same)

C4_Witness ==
    /\ pc = "done"
    /\ Last(rounds).input_code.positional = hidden_code.positional
    /\ hidden_code.positional = RGBP

\* C5: with f(s) the symbols of s in the order met, parsing s fails with "not
\* enough characters" when |f(s)| < 4, fails with "too many characters" when
\* |f(s)| > 4, and gives the code whose positions are f(s) when |f(s)| = 4; for the
\* hidden-code argument and for the last line read.
C5_ParseLength ==
    /\ pc /= "start" =>
        LET f == FilterSymbols(arg) IN
        CASE Len(f) < CodeLen -> hidden_code = NoCode /\ pc = "error" /\ err = NotEnough
          [] Len(f) > CodeLen -> hidden_code = NoCode /\ pc = "error" /\ err = TooMany
          [] OTHER -> hidden_code /= NoCode /\ hidden_code.positional = f
    /\ stdin_read /= <<>> =>
        LET f == FilterSymbols(Last(stdin_read)) IN
        CASE Len(f) < CodeLen ->
                Len(rounds) = Len(stdin_read) - 1 /\ pc = "error" /\ err = NotEnough
          [] Len(f) > CodeLen ->
                Len(rounds) = Len(stdin_read) - 1 /\ pc = "error" /\ err = TooMany
          [] OTHER ->
                Len(rounds) = Len(stdin_read) /\ Last(rounds).input_code.positional = f

C5_Witness ==
    /\ pc = "loop"
    /\ arg = <<"r", "x", "r", "p", "b">>
    /\ hidden_code.positional = <<"Red", "Red", "Purple", "Blue">>
    /\ rounds /= <<>>

\* C6: a hidden-code argument that does not parse ends the program in error with
\* no line read and no round; a line that does not parse (the empty line of the
\* end of input too) ends it in error with no round appended; nothing is read or
\* recorded after an error.
C6_ParseErrorsFatal ==
    /\ []((pc = "error" /\ hidden_code = NoCode) =>
            (rounds = <<>> /\ stdin_read = <<>> /\ stdout = <<>>))
    /\ [][/\ (pc = "start" /\ Len(FilterSymbols(arg')) /= CodeLen) =>
                (pc' = "error" /\ hidden_code' = NoCode /\ rounds' = <<>>
                    /\ stdin_read' = <<>>)
          /\ (stdin_read' /= stdin_read
                /\ Len(FilterSymbols(Last(stdin_read'))) /= CodeLen) =>
                (pc' = "error" /\ rounds' = rounds)
          /\ pc = "error" => (pc' = "error" /\ UNCHANGED <<rounds, stdin_read>>)]_vars

C6_Witness ==
    /\ pc = "error"
    /\ Len(rounds) = 2
    /\ Len(stdin_read) = 3
    /\ Last(stdin_read) = <<>>
    /\ err = NotEnough

\* C7: every code scored against itself wins, codes with repeated symbols too: the
\* score of the hidden code against itself wins, and a round whose guess equals
\* the hidden code is a winning round that ends the game.
C7_SelfScoreWins ==
    /\ hidden_code /= NoCode => wins(score(hidden_code, hidden_code))
    /\ \A k \in 1..Len(rounds) :
        rounds[k].input_code.positional = hidden_code.positional =>
            (wins(rounds[k].score) /\ pc = "done")

C7_Witness ==
    /\ pc = "done"
    /\ hidden_code.positional = <<"Green", "Red", "Green", "Green">>
    /\ rounds[1].input_code.positional = hidden_code.positional

\* C8: the set of every code of a state, the hidden code and each recorded guess,
\* is exactly the set of the symbols of its four positions.
C8_SetMatchesPositions ==
    \A code \in CodesOfState :
        /\ Len(code.positional) = CodeLen
        /\ code.set = Range(code.positional)

C8_Witness ==
    /\ hidden_code.positional = <<"Purple", "Red", "Purple", "Purple">>
    /\ hidden_code.set = {"Purple", "Red"}
    /\ rounds /= <<>>
    /\ Last(rounds).input_code.set = {"Purple"}

\* C9: the Display text of every code is four symbol characters with single spaces
\* between them, and parsing that text succeeds and gives the code's positions.
C9_DisplayParseRoundTrip ==
    \A code \in CodesOfState :
        LET text == CodeDisplay(code)
            back == try_from(text)
        IN /\ Len(text) = 2 * CodeLen - 1
           /\ \A i \in 1..Len(text) :
                IF i % 2 = 1 THEN IsSymbolChar(text[i]) ELSE text[i] = " "
           /\ back.ok
           /\ back.code.positional = code.positional

C9_Witness ==
    /\ pc = "done"
    /\ hidden_code.positional = <<"Purple", "Blue", "Blue", "Red">>
    /\ SubSeq(stdout[2], 1, 7) = <<"p", " ", "b", " ", "b", " ", "r">>

\* A round's line: the guess's characters with spaces, " - ", the key characters
ExpectedLine(round) ==
    LET g == round.input_code.positional
        k == [i \in 1..CodeLen |->
                CASE round.score[i] = "ColorAndPositionCorrect" -> "b"
                  [] round.score[i] = "ColorCorrect" -> "w"
                  [] round.score[i] = "Empty" -> " "]
        c == [i \in 1..CodeLen |->
                CASE g[i] = "Red" -> "r" [] g[i] = "Green" -> "g"
                  [] g[i] = "Blue" -> "b" [] g[i] = "Purple" -> "p"]
    IN <<c[1], " ", c[2], " ", c[3], " ", c[4], " ", "-", " ",
         k[1], " ", k[2], " ", k[3], " ", k[4]>>

\* One line per round, a line break between consecutive rounds
RECURSIVE ExpectedBoard(_)
ExpectedBoard(rs) ==
    IF rs = <<>> THEN <<>>
    ELSE IF Len(rs) = 1 THEN ExpectedLine(rs[1])
    ELSE ExpectedLine(rs[1]) \o <<"\n">> \o ExpectedBoard(Tail(rs))

\* How many times get_input has printed the board
BoardPrints == IF pc = "done" THEN Len(stdout) - 2 ELSE Len(stdout)

\* C10: every rendering of the board written to the output, that of get_input
\* before the i-th read (i-1 rounds) and that of main after the win (all rounds),
\* is one line per round in order, each the guess and its keys, with a line break
\* between consecutive rounds.
C10_BoardOneLinePerRound ==
    /\ \A i \in 1..BoardPrints :
        stdout[i] = ExpectedBoard(SubSeq(rounds, 1, i - 1)) \o <<"\n">>
    /\ pc = "done" => stdout[Len(stdout) - 1] = ExpectedBoard(rounds) \o <<"\n">>

====
